---- MODULE Spec2Model ----
(***************************************************************************)
(* Swap transaction discovery of SolanaSwapFindProvider                    *)
(* (findInitiateSwapTransaction, findClaimSwapTransaction,                 *)
(* findRefundSwapTransaction, _findTransactionByAddress, _batchSignatures, *)
(* _compareParams, _validateSecret).                                       *)
(*                                                                         *)
(* Conventions.  Loop counters i, j, idx and currentBatch keep the 0-based *)
(* values of the code; a TLA+ sequence s is read at s[i + 1].  A JavaScript *)
(* value that may be undefined is a record with a presence flag or the     *)
(* string "undefined".  An address of SwapParams is either a string or an  *)
(* Address object: [isObj, address].                                       *)
(***************************************************************************)
EXTENDS Integers, Sequences, FiniteSets, TLC

\* ---------------------------------------------------------------- bounds
\* Most transactions the batch fetches of one discovery call return in total.
MaxTxs == 2
\* Longest history handed to _batchSignatures on its own.
MaxHistoryLen == 250

\* ------------------------------------------------------- program constants
MAX_NUMBER_OF_REQUESTS == 100

instructions == [init |-> 0, claim |-> 1, refund |-> 2]

UNDEFINED == "undefined"

\* What is thrown: the error, and the batch whose fetch failed (if one did).
NoBatch == 0 - 1
Err(what, b) == [what |-> what, batch |-> b]
NoError == Err(UNDEFINED, NoBatch)

\* ------------------------------------------------------------- data values
Str(s) == [isObj |-> FALSE, address |-> s]
Obj(s) == [isObj |-> TRUE, address |-> s]

\* addressToString(address): a string is returned as it is, an Address
\* object gives its address field.
addressToString(a) == a.address

\* a === s for an address a of SwapParams and a string s of a payload: an
\* object is never strictly equal to a string.
StrictEqString(a, s) == (~a.isObj) /\ a.address = s

\* sha256 on the secrets of the model: distinct secrets, distinct digests.
sha256(secret) ==
  CASE secret = "s1" -> "h1"
    [] secret = "s2" -> "h2"
    [] OTHER -> "h0"

\* BigNumber of a missing value is NaN, which eq finds equal to nothing.
NaN == 0 - 1
BigNumberEq(a, b) == a # NaN /\ b # NaN /\ a = b

\* Mutant: the expiration is not compared.
_compareParamsNoExpiration(swapParams, initTxParams) ==
  /\ StrictEqString(swapParams.recipientAddress, initTxParams.buyer)
  /\ StrictEqString(swapParams.refundAddress, initTxParams.seller)
  /\ swapParams.secretHash = initTxParams.secret_hash
  /\ BigNumberEq(swapParams.value, initTxParams.value)

\* -------------------------------------------------- validation predicates
\* _compareParams(swapParams, initTxParams): the five comparisons, joined
\* by && (a false one ends the evaluation).
_compareParams(swapParams, initTxParams) ==
  /\ StrictEqString(swapParams.recipientAddress, initTxParams.buyer)
  /\ StrictEqString(swapParams.refundAddress, initTxParams.seller)
  /\ swapParams.secretHash = initTxParams.secret_hash
  /\ BigNumberEq(swapParams.value, initTxParams.value)
  /\ BigNumberEq(swapParams.expiration, initTxParams.expiration)

\* _validateSecret(swapParams, data)
_validateSecret(swapParams, data) ==
  swapParams.secretHash = sha256(data.secret)

\* Mutant: the test lacks `idx &&`, so index 0 opens a batch too.
StartsNewBatchAtZero(idx) ==
  idx % MAX_NUMBER_OF_REQUESTS = 0

\* -------------------------------------------------------- _batchSignatures
\* The test of the forEach callback that opens a new batch.
StartsNewBatch(idx) ==
  idx # 0 /\ idx % MAX_NUMBER_OF_REQUESTS = 0

\* The forEach callback on addressHistory[idx] (pastTx), acting on the
\* closure's batches and currentBatch.
BatchCallback(st, pastTx, idx) ==
  LET cb == IF StartsNewBatch(idx) THEN st.currentBatch + 1 ELSE st.currentBatch
      bs == IF StartsNewBatch(idx) THEN Append(st.batches, <<>>) ELSE st.batches
  IN [batches |-> [bs EXCEPT ![cb + 1] = Append(@, pastTx.signature)],
      currentBatch |-> cb]

\* addressHistory.forEach over the indices lo .. hi - 1, in order (the range
\* is halved to keep the evaluation shallow; the calls stay left to right).
RECURSIVE BatchForEach(_, _, _, _)
BatchForEach(addressHistory, lo, hi, st) ==
  IF hi <= lo THEN st
  ELSE IF hi = lo + 1 THEN BatchCallback(st, addressHistory[lo + 1], lo)
  ELSE LET mid == (lo + hi) \div 2
           left == BatchForEach(addressHistory, lo, mid, st)
       IN IF left.currentBatch >= 0  \* always: the left half is evaluated first
            THEN BatchForEach(addressHistory, mid, hi, left)
            ELSE left

\* Mutant: an empty history gives no batch.
_batchSignaturesDropsEmpty(addressHistory) ==
  IF Len(addressHistory) = 0 THEN <<>>
  ELSE BatchForEach(addressHistory, 0, Len(addressHistory),
                    [batches |-> << <<>> >>, currentBatch |-> 0]).batches

\* batches starts as [[]], currentBatch as 0.
_batchSignatures(addressHistory) ==
  BatchForEach(addressHistory, 0, Len(addressHistory),
               [batches |-> << <<>> >>, currentBatch |-> 0]).batches

\* A history of n references; reference k carries signature k.
HistoryOfLen(n) == [k \in 1..n |-> [signature |-> k]]

\* A history of n references in which signatures repeat.
RepeatingHistory(n) == [k \in 1..n |-> [signature |-> k % 7]]

\* ------------------------------------------------------------ transactions
\* The swap the model looks for.
BaseParams ==
  [recipientAddress |-> Str("B"), refundAddress |-> Str("A"),
   secretHash |-> "h1", value |-> 5, expiration |-> 9]

SwapParamsSet ==
  {BaseParams, [BaseParams EXCEPT !.refundAddress = Obj("A")]}

NoInstruction == 0 - 1

\* The payload (_raw) of a transaction; a field the payload lacks is
\* UNDEFINED (NaN once wrapped in a BigNumber).
Payload(ins, buyer, seller, hash, value, expiration, secret) ==
  [instruction |-> ins, buyer |-> buyer, seller |-> seller,
   secret_hash |-> hash, value |-> value, expiration |-> expiration,
   secret |-> secret]

NoPayload == Payload(NoInstruction, UNDEFINED, UNDEFINED, UNDEFINED, NaN, NaN, UNDEFINED)

Tx(hash, hasRaw, raw, secret) ==
  [hash |-> hash, hasRaw |-> hasRaw, _raw |-> raw, secret |-> secret]

TxNoRaw == Tx("plain", FALSE, NoPayload, UNDEFINED)
TxInitOk ==
  Tx("initOk", TRUE, Payload(instructions.init, "B", "A", "h1", 5, 9, UNDEFINED), UNDEFINED)
TxInitBad ==
  Tx("initBad", TRUE, Payload(instructions.init, "B", "A", "h1", 6, 9, UNDEFINED), UNDEFINED)
TxClaimOk ==
  Tx("claimOk", TRUE,
     Payload(instructions.claim, UNDEFINED, UNDEFINED, UNDEFINED, NaN, NaN, "s1"), UNDEFINED)
TxClaimBad ==
  Tx("claimBad", TRUE,
     Payload(instructions.claim, UNDEFINED, UNDEFINED, UNDEFINED, NaN, NaN, "s2"), "s2")
\* A refund whose other payload fields match nothing of BaseParams.
TxRefund ==
  Tx("refund", TRUE, Payload(instructions.refund, "C", "D", "h2", 7, 1, UNDEFINED), UNDEFINED)

\* What getParsedAndConfirmedTransactions may return for a reference.
TxPool == {TxNoRaw, TxInitOk, TxInitBad, TxClaimOk, TxClaimBad, TxRefund}

\* What it may return for [initiationTxHash]: nothing, or one transaction.
InitLookupResponses == {<<>>, <<TxInitOk>>, <<TxNoRaw>>}

\* Lengths of the histories getAddressHistory returns: 1, 2 and 3 batches.
HistoryLengths ==
  {0, 1, MAX_NUMBER_OF_REQUESTS, MAX_NUMBER_OF_REQUESTS + 1,
   2 * MAX_NUMBER_OF_REQUESTS, 2 * MAX_NUMBER_OF_REQUESTS + 1}

SeqsUpTo(S, n) == UNION {[1..k -> S] : k \in 0..n}

\* ======================================================= bitcoin utilities
\* Most UTXOs in the utxos argument of selectCoins, and in fixedInputs.
MaxUtxos == 3
MaxFixed == 2

\* A fee rate is a positive rational num / den (den a power of two, so that
\* the doubles of the program hold it exactly).
Rate(num, den) == [num |-> num, den |-> den]

\* Math.ceil of a positive rational.
MathCeil(r) == (r.num + r.den - 1) \div r.den

\* The sizing model of calculateFee.
INPUT_WEIGHT == 148
OUTPUT_WEIGHT == 34
OVERHEAD == 10

UTXO(txid, vout, value) == [txid |-> txid, vout |-> vout, value |-> value]

Target(value) == [value |-> value]

RECURSIVE SumValues(_)
SumValues(xs) ==
  IF Len(xs) = 0 THEN 0 ELSE Head(xs).value + SumValues(Tail(xs))

\* ------------------------------------------- the coinselect strategies
\* The byte sizes of coinselect's utils: an input and an output without
\* script, and the empty transaction.
TX_EMPTY_SIZE == 10
InputBytes == 148
OutputBytes == 34

TransactionBytes(numInputs, numOutputs) ==
  TX_EMPTY_SIZE + numInputs * InputBytes + numOutputs * OutputBytes

DustThreshold(feeRate) == InputBytes * feeRate

\* What a strategy returns: { inputs, outputs, fee }, or { fee } alone.
Selection(inputs, outputs, fee) ==
  [hasInputs |-> TRUE, inputs |-> inputs, outputs |-> outputs, fee |-> fee]

NoSelection(fee) ==
  [hasInputs |-> FALSE, inputs |-> <<>>, outputs |-> <<>>, fee |-> fee]

\* Mutant: the fee of the extra output is charged whether or not a change
\* output is added.
FinalizeChargesExtraOutput(inputs, outputs, feeRate) ==
  LET bytesAccum == TransactionBytes(Len(inputs), Len(outputs))
      feeAfterExtraOutput == feeRate * (bytesAccum + OutputBytes)
      remainderAfterExtraOutput ==
        SumValues(inputs) - (SumValues(outputs) + feeAfterExtraOutput)
      outs == IF remainderAfterExtraOutput > DustThreshold(feeRate)
                THEN Append(outputs, Target(remainderAfterExtraOutput))
                ELSE outputs
  IN Selection(inputs, outs, feeAfterExtraOutput)

\* utils.finalize: a change output is added when the remainder after its
\* own cost is above the dust threshold; the fee is what the outputs leave.
Finalize(inputs, outputs, feeRate) ==
  LET bytesAccum == TransactionBytes(Len(inputs), Len(outputs))
      feeAfterExtraOutput == feeRate * (bytesAccum + OutputBytes)
      remainderAfterExtraOutput ==
        SumValues(inputs) - (SumValues(outputs) + feeAfterExtraOutput)
      outs == IF remainderAfterExtraOutput > DustThreshold(feeRate)
                THEN Append(outputs, Target(remainderAfterExtraOutput))
                ELSE outputs
  IN Selection(inputs, outs, SumValues(inputs) - SumValues(outs))

\* The loop of the accumulative strategy from utxos[k] (1-based) on.
RECURSIVE AccumulativeFrom(_, _, _, _, _, _)
AccumulativeFrom(utxos, outputs, feeRate, k, bytesAccum, inputs) ==
  IF k > Len(utxos) THEN NoSelection(feeRate * bytesAccum)
  ELSE LET utxo == utxos[k]
           utxoFee == feeRate * InputBytes
       IN IF utxoFee > utxo.value
            \* skip detrimental input
            THEN IF k = Len(utxos)
                   THEN NoSelection(feeRate * (bytesAccum + InputBytes))
                   ELSE AccumulativeFrom(utxos, outputs, feeRate, k + 1, bytesAccum, inputs)
            ELSE LET bytes == bytesAccum + InputBytes
                     ins == Append(inputs, utxo)
                 IN IF SumValues(ins) < SumValues(outputs) + feeRate * bytes
                      THEN AccumulativeFrom(utxos, outputs, feeRate, k + 1, bytes, ins)
                      ELSE Finalize(ins, outputs, feeRate)

\* coinselect/accumulative: inputs are added in list order until they cover
\* the outputs and the fee of the inputs added so far.
coinselectAccumulative(utxos, outputs, feeRate) ==
  AccumulativeFrom(utxos, outputs, feeRate, 1, TransactionBytes(0, Len(outputs)), <<>>)

\* The loop of the blackjack strategy from utxos[k] (1-based) on.
RECURSIVE BlackjackFrom(_, _, _, _, _, _)
BlackjackFrom(utxos, outputs, feeRate, k, bytesAccum, inputs) ==
  IF k > Len(utxos) THEN NoSelection(feeRate * bytesAccum)
  ELSE LET input == utxos[k]
           fee == feeRate * (bytesAccum + InputBytes)
       IN IF SumValues(inputs) + input.value
               > SumValues(outputs) + fee + DustThreshold(feeRate)
            \* would it waste value?
            THEN BlackjackFrom(utxos, outputs, feeRate, k + 1, bytesAccum, inputs)
            ELSE LET ins == Append(inputs, input)
                 IN IF SumValues(ins) < SumValues(outputs) + fee
                      THEN BlackjackFrom(utxos, outputs, feeRate, k + 1,
                                         bytesAccum + InputBytes, ins)
                      ELSE Finalize(ins, outputs, feeRate)

blackjack(utxos, outputs, feeRate) ==
  BlackjackFrom(utxos, outputs, feeRate, 1, TransactionBytes(0, Len(outputs)), <<>>)

utxoScore(x, feeRate) == x.value - feeRate * InputBytes

\* x put into a list sorted by descending score, behind its equals.
RECURSIVE InsertByScore(_, _, _)
InsertByScore(sorted, x, feeRate) ==
  IF Len(sorted) = 0 THEN <<x>>
  ELSE IF utxoScore(Head(sorted), feeRate) >= utxoScore(x, feeRate)
    THEN <<Head(sorted)>> \o InsertByScore(Tail(sorted), x, feeRate)
    ELSE <<x>> \o sorted

\* utxos.concat().sort(descending score)
RECURSIVE SortByScore(_, _)
SortByScore(utxos, feeRate) ==
  IF Len(utxos) = 0 THEN <<>>
  ELSE InsertByScore(SortByScore(SubSeq(utxos, 1, Len(utxos) - 1), feeRate),
                     utxos[Len(utxos)], feeRate)

\* coinselect: blackjack on the sorted candidates, else accumulative.
coinselect(utxos, outputs, feeRate) ==
  LET sorted == SortByScore(utxos, feeRate)
      base == blackjack(sorted, outputs, feeRate)
  IN IF base.hasInputs THEN base ELSE coinselectAccumulative(sorted, outputs, feeRate)

\* ---------------------------------------------------------------- selectCoins
\* fixedInputs.find(input => input.vout === utxo.vout && input.txid === utxo.txid)
IsFixed(fixedInputs, utxo) ==
  \E k \in 1..Len(fixedInputs) :
    fixedInputs[k].vout = utxo.vout /\ fixedInputs[k].txid = utxo.txid

\* The candidates handed to the strategy: the fixed inputs first.
SelectUtxos(utxos, fixedInputs) ==
  LET NotFixed(utxo) == ~IsFixed(fixedInputs, utxo)
  IN IF Len(fixedInputs) # 0
       THEN fixedInputs \o SelectSeq(utxos, NotFixed)
       ELSE utxos

\* selectCoins returns { inputs, outputs, fee } as the strategy gave them
\* (inputs and outputs undefined when it gave { fee } alone); it has no throw.
selectCoins(utxos, targets, feePerByte, fixedInputs) ==
  LET result ==
        IF Len(fixedInputs) # 0
          THEN coinselectAccumulative(SelectUtxos(utxos, fixedInputs), targets,
                                      MathCeil(feePerByte))
          ELSE coinselect(SelectUtxos(utxos, fixedInputs), targets,
                          MathCeil(feePerByte))
  IN [completion |-> "returned", hasInputs |-> result.hasInputs,
      inputs |-> result.inputs, outputs |-> result.outputs, fee |-> result.fee]

\* ------------------------------------------------------------ calculateFee
\* Equality of two rationals.
RatEq(a, b) == a.num * b.den = b.num * a.den

\* Mutant: the fixed overhead is left out.
calculateFeeNoOverhead(numInputs, numOutputs, feePerByte) ==
  Rate((numInputs * INPUT_WEIGHT + numOutputs * OUTPUT_WEIGHT) * feePerByte.num,
       feePerByte.den)

\* calculateFee: the product with feePerByte as it is given.
calculateFee(numInputs, numOutputs, feePerByte) ==
  Rate((numInputs * INPUT_WEIGHT + numOutputs * OUTPUT_WEIGHT + OVERHEAD)
         * feePerByte.num,
       feePerByte.den)

\* ---------------------------------------------- normalizeTransactionObject
\* The smallest units in a whole unit (1e8).
UNITS_PER_COIN == 100000000

\* new BigNumber(n.value).times(1e8), for a value of num / den whole units.
TimesUnits(value) == (value.num * UNITS_PER_COIN) \div value.den

\* tx.vout.reduce((p, n) => p.plus(...), new BigNumber(0))
RECURSIVE TotalValue(_)
TotalValue(vout) ==
  IF Len(vout) = 0 THEN 0
  ELSE TotalValue(SubSeq(vout, 1, Len(vout) - 1)) + TimesUnits(vout[Len(vout)].value)

\* An optional argument: given with a value, or left out (undefined).
Given(v) == [given |-> TRUE, value |-> v]
Omitted == [given |-> FALSE, value |-> 0]

\* if (fee): undefined and 0 are falsy.
FeeIsTruthy(fee) == fee.given /\ fee.value # 0

\* if (block): an object is truthy, undefined is not.
BlockIsTruthy(block) == block.given

\* Math.round of the non-negative quotient a / b (halves go up).
MathRound(a, b) == (2 * a + b) \div (2 * b)

NoBlock == [hash |-> UNDEFINED, number |-> 0 - 1]
OmittedBlock == [given |-> FALSE, value |-> NoBlock]

\* The result object; hasFee tells whether fee and feePrice were assigned,
\* hasBlock whether blockHash and blockNumber were.
normalizeTransactionObject(tx, fee, block) ==
  [hash |-> tx.txid,
   value |-> TotalValue(tx.vout),
   _raw |-> tx,
   confirmations |-> IF BlockIsTruthy(block) THEN tx.confirmations ELSE 0,
   hasFee |-> FeeIsTruthy(fee),
   fee |-> IF FeeIsTruthy(fee) THEN fee.value ELSE 0,
   feePrice |-> IF FeeIsTruthy(fee) THEN MathRound(fee.value, tx.vsize) ELSE 0,
   hasBlock |-> BlockIsTruthy(block),
   blockHash |-> IF BlockIsTruthy(block) THEN block.value.hash ELSE NoBlock.hash,
   blockNumber |-> IF BlockIsTruthy(block) THEN block.value.number ELSE NoBlock.number]

\* Largest input and output count handed to calculateFee.
MaxCount == 5

\* The transactions, fees and blocks handed to normalizeTransactionObject.
BtcTx(txid, vout, vsize, confirmations) ==
  [txid |-> txid, vout |-> vout, vsize |-> vsize, confirmations |-> confirmations]

Vout(num, den) == [value |-> Rate(num, den)]

BtcTxs ==
  {BtcTx(txid, vout, vsize, confirmations) :
     txid \in {"tx1"},
     vout \in {<<>>, <<Vout(1, 2)>>, <<Vout(5, 100000)>>, <<Vout(5, 100000), Vout(12, 10)>>},
     vsize \in {100, 141},
     confirmations \in {0, 6}}

FeeArgs == {Omitted, Given(0), Given(150), Given(250), Given(1000)}

BlockArgs == {OmittedBlock, Given([hash |-> "b1", number |-> 7])}

\* The inputs of the selectCoins calls of the model.
UtxoPool ==
  {UTXO("t1", 0, 5000), UTXO("t1", 1, 3000), UTXO("t2", 0, 1000), UTXO("t3", 0, 100)}

DistinctSeqs(S, n) ==
  {q \in SeqsUpTo(S, n) : \A a, b \in 1..Len(q) : a # b => q[a] # q[b]}

TargetLists ==
  {<<Target(6000)>>, <<Target(1000)>>, <<Target(4800)>>,
   <<Target(500), Target(500)>>, <<Target(9500)>>}

FeeRates == {Rate(1, 1), Rate(1, 2), Rate(3, 2), Rate(2, 1)}

\* ------------------------------------------------------------------- state
VARIABLES
  finder,          \* "init" | "claim" | "refund": the find* method called
  swapParams,      \* its swapParams argument
  pc,              \* where the call is
  initLookups,     \* getParsedAndConfirmedTransactions([initiationTxHash]) calls
  initTxFetch,     \* the promise of that call
  address,         \* _findTransactionByAddress: address
  instruction,     \*   instruction
  validation,      \*   validation
  histCalls,       \* getAddressHistory calls
  historyFetch,    \* the promise of that call: its status
  addressHistory,  \* its result
  batch,           \* _batchSignatures(addressHistory)
  fetch,           \* per batch: the promise of its fetch
  fetchCalls,      \* the batch (0-based) of every batch-fetch call, in call order
  settleOrder,     \* batches (0-based) in the order their fetches settled
  matrix,          \* await Promise.all(parsedTransactions)
  i, j,            \* the loop counters of the scan
  initTransaction, \* <<>> while undefined, <<data>> once assigned
  validationLog,   \* <<i, j>> of every call of validation, in order
  outcome,         \* "Scanning" | "Found" | "NotFound" | "Error" | "PendingTxError"
  error,           \* what was thrown
  batchIn, batchOut,   \* _batchSignatures alone: argument and result
  cmpParams, cmpTx, cmpOut, \* _compareParams alone: arguments and result
  scArgs, scOut,       \* selectCoins alone: arguments, <<result>> once run
  feeArgs, feeOut,     \* calculateFee alone
  normArgs, normOut,   \* normalizeTransactionObject alone
  sendOptions,     \* sendTransaction: which of options.instructions, options.to are set
  sendPc,          \* where the sendTransaction call is
  interval,        \* the setInterval timer: "none" | "active" | "cleared"
  polls,           \* the _getAccountInfo calls under way, by slot
  account,         \* what the chain holds for programId
  waitPromise,     \* the promise of _waitForContractToBeExecutable
  sawExecutable,   \* a poll has observed executable = true
  sawNotExecutable, \* a poll has observed executable = false
  sendCalls,       \* sendAndConfirmTransaction calls
  parseCalls,      \* getParsedAndConfirmedTransactions([tx]) calls
  sendResult       \* what sendTransaction returned or threw

argVars == <<finder, swapParams>>
lookupVars == <<initLookups, initTxFetch>>
enterVars == <<address, instruction, validation, histCalls, historyFetch>>
historyVars == <<addressHistory, batch>>
fetchVars == <<fetch, settleOrder, fetchCalls>>
scanVars == <<matrix, i, j, initTransaction, validationLog>>
endVars == <<outcome, error>>
deployVars ==
  <<sendOptions, sendPc, interval, polls, account, waitPromise, sawExecutable,
    sawNotExecutable, sendCalls, parseCalls, sendResult>>
utilVars == <<scArgs, scOut, feeArgs, feeOut, normArgs, normOut, deployVars>>
pureVars == <<batchIn, batchOut, cmpParams, cmpTx, cmpOut, utilVars>>

callVars ==
  <<argVars, pc, lookupVars, enterVars, historyVars, fetchVars, scanVars, endVars>>

vars == <<callVars, pureVars>>

Pending == [status |-> "pending", value |-> <<>>]
NotCalled == [status |-> "none", value |-> <<>>]

\* The state of a discovery call before it starts.
CallFresh ==
  /\ initLookups = 0 /\ initTxFetch = NotCalled
  /\ address = UNDEFINED /\ instruction = NoInstruction
  /\ validation = UNDEFINED /\ histCalls = 0 /\ historyFetch = "none"
  /\ addressHistory = <<>> /\ batch = <<>>
  /\ fetch = <<>> /\ settleOrder = <<>> /\ fetchCalls = <<>>
  /\ matrix = <<>> /\ i = 0 /\ j = 0
  /\ initTransaction = <<>> /\ validationLog = <<>>
  /\ outcome = "Scanning" /\ error = NoError

\* No discovery call runs (the specifications of the pure functions).
CallIdle ==
  /\ finder = "none" /\ swapParams = BaseParams /\ pc = "idle"
  /\ CallFresh

\* None of the bitcoin utilities runs.
SelectCoinsIdle ==
  /\ scArgs = [utxos |-> <<>>, targets |-> <<>>, feePerByte |-> Rate(1, 1),
               fixedInputs |-> <<>>]
  /\ scOut = <<>>

CalculateFeeIdle ==
  /\ feeArgs = [numInputs |-> 0, numOutputs |-> 0, feePerByte |-> Rate(1, 1)]
  /\ feeOut = <<>>

NormalizeIdle ==
  /\ normArgs = [tx |-> BtcTx("tx1", <<>>, 100, 0), fee |-> Omitted, block |-> OmittedBlock]
  /\ normOut = <<>>

\* Most _getAccountInfo calls under way at once.
MaxInFlight == 3

\* Before sendTransaction has started the wait.
SendFresh ==
  /\ interval = "none"
  /\ polls = [k \in 1..MaxInFlight |-> "free"]
  /\ waitPromise = "none"
  /\ sawExecutable = FALSE /\ sawNotExecutable = FALSE
  /\ sendCalls = 0 /\ parseCalls = 0
  /\ sendResult = "none"

\* No sendTransaction call runs.
DeployIdle ==
  /\ sendOptions = [instructions |-> FALSE, to |-> FALSE]
  /\ sendPc = "idle"
  /\ account = "unavailable"
  /\ SendFresh

UtilIdle == SelectCoinsIdle /\ CalculateFeeIdle /\ NormalizeIdle /\ DeployIdle

PureIdle ==
  /\ batchIn = <<>> /\ batchOut = <<>>
  /\ cmpParams = BaseParams /\ cmpTx = NoPayload /\ cmpOut = "none"
  /\ UtilIdle

\* ---------------------------------------------------------- the find* calls
\* The synchronous start of _findTransactionByAddress: the arguments are
\* bound and getAddressHistory(address) is called.
EnterFindTransactionByAddress(addr, ins, val) ==
  /\ address' = addr
  /\ instruction' = ins
  /\ validation' = val
  /\ histCalls' = histCalls + 1
  /\ historyFetch' = "pending"
  /\ pc' = "awaitHistory"

\* A throw out of the call.
Throw(kind, what) ==
  /\ outcome' = kind
  /\ error' = what
  /\ pc' = "done"

findInitiateSwapTransaction ==
  /\ pc = "start" /\ finder = "init"
  /\ EnterFindTransactionByAddress(addressToString(swapParams.refundAddress),
                                   instructions.init, "_compareParams")
  /\ UNCHANGED <<argVars, lookupVars, historyVars, fetchVars, scanVars, endVars,
                 pureVars>>

\* findClaimSwapTransaction and findRefundSwapTransaction up to their await.
findClaimOrRefundSwapTransaction ==
  /\ pc = "start" /\ finder \in {"claim", "refund"}
  /\ initLookups' = initLookups + 1
  /\ initTxFetch' = Pending
  /\ pc' = "awaitInitTx"
  /\ UNCHANGED <<argVars, enterVars, historyVars, fetchVars, scanVars, endVars,
                 pureVars>>

\* Mutant: the test for a missing initiation transaction is left out.
IsMissingNever(response) == FALSE

\* if (!initTransaction), for const [initTransaction] = response
IsMissing(response) == Len(response) = 0

\* The lookup of the initiation transaction resolves with `response`.
InitLookupResolves(response) ==
  /\ pc = "awaitInitTx"
  /\ initTxFetch' = [status |-> "resolved", value |-> response]
  /\ IF IsMissing(response)
       THEN /\ Throw("PendingTxError", Err("PendingTxError", NoBatch))
            /\ UNCHANGED enterVars
       ELSE IF Len(response) = 0 \/ ~response[1].hasRaw
         \* destructuring { _raw: { buyer } } of undefined, or of a
         \* transaction without _raw
         THEN /\ Throw("Error", Err("TypeError", NoBatch))
              /\ UNCHANGED enterVars
         ELSE /\ IF finder = "claim"
                   THEN EnterFindTransactionByAddress(response[1]._raw.buyer,
                          instructions.claim, "_validateSecret")
                   ELSE EnterFindTransactionByAddress(response[1]._raw.seller,
                          instructions.refund, UNDEFINED)
              /\ UNCHANGED endVars
  /\ initLookups' = initLookups
  /\ UNCHANGED <<argVars, historyVars, fetchVars, scanVars, pureVars>>

InitLookupRejects ==
  /\ pc = "awaitInitTx"
  /\ initTxFetch' = [status |-> "rejected", value |-> <<>>]
  /\ initLookups' = initLookups
  /\ Throw("Error", Err("getParsedAndConfirmedTransactions", NoBatch))
  /\ UNCHANGED <<argVars, enterVars, historyVars, fetchVars, scanVars, pureVars>>

\* ------------------------------------------------ _findTransactionByAddress
\* Mutant: a batch whose fetch is called is called a second time.
BatchMapCallsTwice(batches) ==
  [b \in 1..Len(batches) |-> b - 1] \o [b \in 1..Len(batches) |-> b - 1]

\* batch.map((sigs) => getParsedAndConfirmedTransactions(sigs)): the calls
\* it makes, one per batch, in batch order.
BatchMapCalls(batches) == [b \in 1..Len(batches) |-> b - 1]

\* getAddressHistory resolves: the history is batched and one fetch per
\* batch is issued (batch.map), all in the same turn.
HistoryResolves(history) ==
  /\ pc = "awaitHistory"
  /\ historyFetch' = "resolved"
  /\ addressHistory' = history
  /\ batch' = _batchSignatures(history)
  /\ fetchCalls' = BatchMapCalls(batch')
  /\ fetch' = [b \in 1..Len(batch') |-> Pending]
  /\ pc' = "awaitAll"
  /\ UNCHANGED <<argVars, lookupVars, address, instruction, validation, histCalls,
                 settleOrder, scanVars, endVars, pureVars>>

HistoryRejects ==
  /\ pc = "awaitHistory"
  /\ historyFetch' = "rejected"
  /\ Throw("Error", Err("getAddressHistory", NoBatch))
  /\ UNCHANGED <<argVars, lookupVars, address, instruction, validation, histCalls,
                 historyVars, fetchVars, scanVars, pureVars>>

\* Mutant: Promise.race in place of Promise.all; the first promise to settle
\* settles it.
PromiseRaceState(promises) ==
  IF \E b \in 1..Len(promises) : promises[b].status = "rejected" THEN "rejected"
  ELSE IF \E b \in 1..Len(promises) : promises[b].status = "resolved" THEN "resolved"
  ELSE "pending"

\* Mutant: Promise.allSettled in place of Promise.all; a rejection is not
\* passed on.
PromiseAllSettledState(promises) ==
  IF \A b \in 1..Len(promises) : promises[b].status # "pending" THEN "resolved"
  ELSE "pending"

\* Promise.all(promises): "rejected" as soon as one promise is rejected,
\* "resolved" once all are resolved, "pending" otherwise.
PromiseAllState(promises) ==
  IF \E b \in 1..Len(promises) : promises[b].status = "rejected" THEN "rejected"
  ELSE IF \A b \in 1..Len(promises) : promises[b].status = "resolved" THEN "resolved"
  ELSE "pending"

RECURSIVE SumLen(_)
SumLen(seqs) ==
  IF Len(seqs) = 0 THEN 0 ELSE Len(Head(seqs).value) + SumLen(Tail(seqs))

\* The fetch of batch b (0-based) resolves with `txs`, at most one
\* transaction for each reference of the batch.  Once Promise.all
\* has settled, the call resumes in the same turn's microtasks, before the
\* completion of another fetch is delivered.
FetchResolves(b, txs) ==
  /\ pc = "awaitAll"
  /\ PromiseAllState(fetch) = "pending"
  /\ fetch[b + 1].status = "pending"
  /\ SumLen(fetch) + Len(txs) <= MaxTxs
  /\ Len(txs) <= Len(batch[b + 1])
  /\ fetch' = [fetch EXCEPT ![b + 1] = [status |-> "resolved", value |-> txs]]
  /\ settleOrder' = Append(settleOrder, b)
  /\ UNCHANGED <<fetchCalls, argVars, pc, lookupVars, enterVars, historyVars, scanVars,
                 endVars, pureVars>>

\* The fetch of batch b (0-based) rejects.
FetchRejects(b) ==
  /\ pc = "awaitAll"
  /\ PromiseAllState(fetch) = "pending"
  /\ fetch[b + 1].status = "pending"
  /\ fetch' = [fetch EXCEPT ![b + 1] = [status |-> "rejected", value |-> <<>>]]
  /\ settleOrder' = Append(settleOrder, b)
  /\ UNCHANGED <<fetchCalls, argVars, pc, lookupVars, enterVars, historyVars, scanVars,
                 endVars, pureVars>>

\* Mutant: the values are collected as the promises settle.
PromiseAllValueAsSettled(promises, order) ==
  [k \in 1..Len(promises) |-> promises[order[k] + 1].value]

\* The value Promise.all resolves with: the values in the order of the
\* promises, whatever the order they settled in.
PromiseAllValue(promises, order) ==
  [b \in 1..Len(promises) |-> promises[b].value]

\* The reason Promise.all rejects with: that of the first rejection.
FirstRejected(promises, order) ==
  LET k == CHOOSE n \in 1..Len(order) :
             /\ promises[order[n] + 1].status = "rejected"
             /\ \A m \in 1..(n - 1) : promises[order[m] + 1].status # "rejected"
  IN order[k]

AwaitAllResolves ==
  /\ pc = "awaitAll"
  /\ PromiseAllState(fetch) = "resolved"
  /\ matrix' = PromiseAllValue(fetch, settleOrder)
  /\ i' = 0 /\ j' = 0
  /\ pc' = "scan"
  /\ UNCHANGED <<argVars, lookupVars, enterVars, historyVars, fetchVars,
                 initTransaction, validationLog, endVars, pureVars>>

AwaitAllRejects ==
  /\ pc = "awaitAll"
  /\ PromiseAllState(fetch) = "rejected"
  /\ Throw("Error", Err("getParsedAndConfirmedTransactions", FirstRejected(fetch, settleOrder)))
  /\ UNCHANGED <<argVars, lookupVars, enterVars, historyVars, fetchVars, scanVars,
                 pureVars>>

\* data._raw?.instruction
RawInstruction(data) ==
  IF data.hasRaw THEN data._raw.instruction ELSE NoInstruction

\* Mutant: a transaction without payload is taken to carry the tag.
TagMatchesOrNoPayload(data, ins) ==
  (~data.hasRaw) \/ RawInstruction(data) = ins

\* Mutant: the tag is not compared.
TagMatchesAlways(data, ins) == TRUE

\* data._raw?.instruction === instruction
TagMatches(data, ins) == RawInstruction(data) = ins

\* Mutant: the unconditional branch is taken for the wrong instruction.
IsRefundMistaken(ins) == ins = instructions.claim

\* instruction === this.instructions.refund
IsRefund(ins) == ins = instructions.refund

\* Mutant: the result of validation is not looked at.
CallValidationIgnored(val, params, raw) == TRUE

\* validation(swapParams, data._raw), for the validation the finder passed.
CallValidation(val, params, raw) ==
  CASE val = "_compareParams" -> _compareParams(params, raw)
    [] val = "_validateSecret" -> _validateSecret(params, raw)

\* Mutant: only the first batch is scanned.
OuterLoopFirstBatchOnly(ii, m) == ii < 1

\* The tests of the two for loops.
OuterLoopContinues(ii, m) == ii < Len(m)
InnerLoopContinues(ii, jj, m) == jj < Len(m[ii + 1])

\* initTransaction = data; initTransaction.secret = data.secret
\* (initTransaction and data are the same object).
AssignWithSecret(data) == [data EXCEPT !.secret = data.secret]

\* The data at the loop counters.
Data == matrix[i + 1][j + 1]

\* One pass of the inner loop body on matrix[i][j].  An assignment of
\* initTransaction is followed by both breaks and the return.
ScanInspect ==
  /\ pc = "scan"
  /\ OuterLoopContinues(i, matrix)
  /\ InnerLoopContinues(i, j, matrix)
  /\ IF TagMatches(Data, instruction)
       THEN IF IsRefund(instruction)
         THEN /\ initTransaction' = <<Data>>
              /\ outcome' = "Found" /\ pc' = "done"
              /\ UNCHANGED <<j, validationLog, error>>
         ELSE IF validation = UNDEFINED
           \* a call of undefined
           THEN /\ Throw("Error", Err("TypeError", NoBatch))
                /\ UNCHANGED <<j, initTransaction, validationLog>>
           ELSE /\ validationLog' = Append(validationLog, <<i, j>>)
                /\ IF CallValidation(validation, swapParams, Data._raw)
                     THEN /\ initTransaction' = <<AssignWithSecret(Data)>>
                          /\ outcome' = "Found" /\ pc' = "done"
                          /\ UNCHANGED <<j, error>>
                     ELSE /\ j' = j + 1
                          /\ UNCHANGED <<initTransaction, outcome, pc, error>>
       ELSE /\ j' = j + 1
            /\ UNCHANGED <<initTransaction, validationLog, outcome, pc, error>>
  /\ UNCHANGED <<argVars, lookupVars, enterVars, historyVars, fetchVars,
                 matrix, i, pureVars>>

\* The inner loop ends with initTransaction undefined: the next batch.
ScanNextBatch ==
  /\ pc = "scan"
  /\ OuterLoopContinues(i, matrix)
  /\ ~InnerLoopContinues(i, j, matrix)
  /\ i' = i + 1 /\ j' = 0
  /\ UNCHANGED <<argVars, pc, lookupVars, enterVars, historyVars, fetchVars,
                 matrix, initTransaction, validationLog, endVars, pureVars>>

\* The outer loop ends: return initTransaction, which is undefined.
ScanReturnsUndefined ==
  /\ pc = "scan"
  /\ ~OuterLoopContinues(i, matrix)
  /\ outcome' = "NotFound" /\ pc' = "done"
  /\ UNCHANGED <<argVars, lookupVars, enterVars, historyVars, fetchVars,
                 scanVars, error, pureVars>>

\* ----------------------------------------------------------- specification
\* The batches (0-based) whose fetch may still settle, and the number of
\* transactions the fetches may still return.
PendingFetches ==
  IF pc = "awaitAll"
    THEN {b \in 0..(Len(fetch) - 1) : fetch[b + 1].status = "pending"}
    ELSE {}

FetchBudget == MaxTxs - SumLen(fetch)

Init ==
  /\ finder \in {"init", "claim", "refund"}
  /\ swapParams \in SwapParamsSet
  /\ pc = "start"
  /\ CallFresh
  /\ PureIdle

Next ==
  \/ findInitiateSwapTransaction
  \/ findClaimOrRefundSwapTransaction
  \/ \E response \in InitLookupResponses : InitLookupResolves(response)
  \/ InitLookupRejects
  \/ \E n \in HistoryLengths : HistoryResolves(HistoryOfLen(n))
  \/ HistoryRejects
  \/ \E b \in PendingFetches : \E txs \in SeqsUpTo(TxPool, FetchBudget) : FetchResolves(b, txs)
  \/ \E b \in PendingFetches : FetchRejects(b)
  \/ AwaitAllResolves
  \/ AwaitAllRejects
  \/ ScanInspect
  \/ ScanNextBatch
  \/ ScanReturnsUndefined

Spec == Init /\ [][Next]_vars

\* ------------------------------------------- _batchSignatures on its own
InitBatch ==
  /\ CallIdle
  /\ batchIn \in {HistoryOfLen(n) : n \in 0..MaxHistoryLen}
                 \cup {RepeatingHistory(n) : n \in 0..MaxHistoryLen}
  /\ batchOut = <<>>
  /\ cmpParams = BaseParams /\ cmpTx = NoPayload /\ cmpOut = "none"
  /\ UtilIdle

RunBatchSignatures ==
  /\ batchOut = <<>>
  /\ batchOut' = _batchSignatures(batchIn)
  /\ UNCHANGED <<callVars, batchIn, cmpParams, cmpTx, cmpOut, utilVars>>

NextBatch == RunBatchSignatures

SpecBatch == InitBatch /\ [][NextBatch]_vars

\* --------------------------------------------- _compareParams on its own
CompareAddresses == {Str("A"), Str("B"), Obj("B")}

CompareParamsSet ==
  [recipientAddress : CompareAddresses, refundAddress : CompareAddresses,
   secretHash : {"h1", "h2"}, value : {5, 6}, expiration : {9, 10}]

ComparePayloads ==
  {Payload(instructions.init, buyer, seller, hash, value, expiration, UNDEFINED) :
     buyer \in {"A", "B"}, seller \in {"A", "B"}, hash \in {"h1", "h2"},
     value \in {5, 6}, expiration \in {9, 10}}

InitCompare ==
  /\ CallIdle
  /\ batchIn = <<>> /\ batchOut = <<>>
  /\ cmpParams \in CompareParamsSet
  /\ cmpTx \in ComparePayloads
  /\ cmpOut = "none"
  /\ UtilIdle

RunCompareParams ==
  /\ cmpOut = "none"
  /\ cmpOut' = IF _compareParams(cmpParams, cmpTx) THEN "true" ELSE "false"
  /\ UNCHANGED <<callVars, batchIn, batchOut, cmpParams, cmpTx, utilVars>>

NextCompare == RunCompareParams

SpecCompare == InitCompare /\ [][NextCompare]_vars

\* ------------------------------------------------ selectCoins on its own
InitSelectCoins ==
  /\ CallIdle
  /\ batchIn = <<>> /\ batchOut = <<>>
  /\ cmpParams = BaseParams /\ cmpTx = NoPayload /\ cmpOut = "none"
  /\ scArgs \in [utxos : DistinctSeqs(UtxoPool, MaxUtxos), targets : TargetLists,
                  feePerByte : FeeRates, fixedInputs : DistinctSeqs(UtxoPool, MaxFixed)]
  /\ scOut = <<>>
  /\ CalculateFeeIdle /\ NormalizeIdle /\ DeployIdle

RunSelectCoins ==
  /\ scOut = <<>>
  /\ scOut' = <<selectCoins(scArgs.utxos, scArgs.targets, scArgs.feePerByte,
                            scArgs.fixedInputs)>>
  /\ UNCHANGED <<callVars, batchIn, batchOut, cmpParams, cmpTx, cmpOut,
                 scArgs, feeArgs, feeOut, normArgs, normOut, deployVars>>

NextSelectCoins == RunSelectCoins

SpecSelectCoins == InitSelectCoins /\ [][NextSelectCoins]_vars

\* ----------------------------------------------- calculateFee on its own
InitCalculateFee ==
  /\ CallIdle
  /\ batchIn = <<>> /\ batchOut = <<>>
  /\ cmpParams = BaseParams /\ cmpTx = NoPayload /\ cmpOut = "none"
  /\ feeArgs \in [numInputs : 0..MaxCount, numOutputs : 0..MaxCount,
                   feePerByte : FeeRates]
  /\ feeOut = <<>>
  /\ SelectCoinsIdle /\ NormalizeIdle /\ DeployIdle

RunCalculateFee ==
  /\ feeOut = <<>>
  /\ feeOut' = <<calculateFee(feeArgs.numInputs, feeArgs.numOutputs,
                              feeArgs.feePerByte)>>
  /\ UNCHANGED <<callVars, batchIn, batchOut, cmpParams, cmpTx, cmpOut,
                 scArgs, scOut, feeArgs, normArgs, normOut, deployVars>>

NextCalculateFee == RunCalculateFee

SpecCalculateFee == InitCalculateFee /\ [][NextCalculateFee]_vars

\* --------------------------------- normalizeTransactionObject on its own
InitNormalize ==
  /\ CallIdle
  /\ batchIn = <<>> /\ batchOut = <<>>
  /\ cmpParams = BaseParams /\ cmpTx = NoPayload /\ cmpOut = "none"
  /\ normArgs \in [tx : BtcTxs, fee : FeeArgs, block : BlockArgs]
  /\ normOut = <<>>
  /\ SelectCoinsIdle /\ CalculateFeeIdle /\ DeployIdle

RunNormalize ==
  /\ normOut = <<>>
  /\ normOut' = <<normalizeTransactionObject(normArgs.tx, normArgs.fee,
                                             normArgs.block)>>
  /\ UNCHANGED <<callVars, batchIn, batchOut, cmpParams, cmpTx, cmpOut,
                 scArgs, scOut, feeArgs, feeOut, normArgs, deployVars>>

NextNormalize == RunNormalize

SpecNormalize == InitNormalize /\ [][NextNormalize]_vars

\* ------------------------------------- SolanaWalletProvider.sendTransaction
\* What no step of sendTransaction changes.
restVars ==
  <<callVars, batchIn, batchOut, cmpParams, cmpTx, cmpOut,
    scArgs, scOut, feeArgs, feeOut, normArgs, normOut>>

\* !options.instructions && !options.to
IsDeploy(options) == (~options.instructions) /\ (~options.to)

\* sendTransaction starts: await this.setSigner().
sendTransaction ==
  /\ sendPc = "start"
  /\ sendPc' = "awaitSigner"
  /\ UNCHANGED <<sendOptions, interval, polls, account, waitPromise, sawExecutable,
                 sawNotExecutable, sendCalls, parseCalls, sendResult, restVars>>

\* setSigner resolved: _deploy is called on the deploy path; on the other
\* paths the transaction is built and sendAndConfirmTransaction is called.
SetSignerResolves ==
  /\ sendPc = "awaitSigner"
  /\ IF IsDeploy(sendOptions)
       THEN sendPc' = "awaitDeploy" /\ sendCalls' = sendCalls
       ELSE sendPc' = "awaitSend" /\ sendCalls' = sendCalls + 1
  /\ UNCHANGED <<sendOptions, interval, polls, account, waitPromise, sawExecutable,
                 sawNotExecutable, parseCalls, sendResult, restVars>>

\* An awaited call rejects (setSigner: invalid seed words; _deploy;
\* sendAndConfirmTransaction; getParsedAndConfirmedTransactions).
AwaitRejects ==
  /\ sendPc \in {"awaitSigner", "awaitDeploy", "awaitSend", "awaitParse"}
  /\ sendPc' = "done"
  /\ sendResult' = "error"
  /\ UNCHANGED <<sendOptions, interval, polls, account, waitPromise, sawExecutable,
                 sawNotExecutable, sendCalls, parseCalls, restVars>>

\* _deploy resolved with programId: _waitForContractToBeExecutable sets the
\* interval and sendTransaction awaits its promise.
DeployResolves ==
  /\ sendPc = "awaitDeploy"
  /\ interval' = "active"
  /\ waitPromise' = "pending"
  /\ sendPc' = "awaitExecutable"
  /\ UNCHANGED <<sendOptions, polls, account, sawExecutable, sawNotExecutable,
                 sendCalls, parseCalls, sendResult, restVars>>

\* The lowest free slot.
FreeSlots == {k \in 1..MaxInFlight : polls[k] = "free"}
FirstFreeSlot == CHOOSE k \in FreeSlots : \A n \in FreeSlots : k <= n

\* The interval fires: the callback calls _getAccountInfo(programId).
IntervalFires ==
  /\ interval = "active"
  /\ FreeSlots # {}
  /\ polls' = [polls EXCEPT ![FirstFreeSlot] = "sent"]
  /\ UNCHANGED <<sendOptions, sendPc, interval, account, waitPromise, sawExecutable,
                 sawNotExecutable, sendCalls, parseCalls, sendResult, restVars>>

\* What _getAccountInfo gives for the account as it is.
AccountInfo(acc) ==
  CASE acc = "executable" -> "true"
    [] acc = "notExecutable" -> "false"
    [] OTHER -> "failed"

\* The call under way in slot k is answered from the chain.
PollAnswered(k) ==
  /\ polls[k] = "sent"
  /\ polls' = [polls EXCEPT ![k] = AccountInfo(account)]
  /\ UNCHANGED <<sendOptions, sendPc, interval, account, waitPromise, sawExecutable,
                 sawNotExecutable, sendCalls, parseCalls, sendResult, restVars>>

\* Mutant: the callback resolves on any account info.
IsExecutableAnyInfo(info) == TRUE

\* if (accountInfo.executable)
IsExecutable(info) == info = "true"

\* The callback resumes with the answer of slot k.  A rejected call, or an
\* account info of null, ends the callback with an error nobody handles.
PollCallback(k) ==
  /\ polls[k] \in {"true", "false", "failed"}
  /\ polls' = [polls EXCEPT ![k] = "free"]
  /\ sawExecutable' = (sawExecutable \/ polls[k] = "true")
  /\ sawNotExecutable' = (sawNotExecutable \/ polls[k] = "false")
  /\ IF polls[k] # "failed" /\ IsExecutable(polls[k])
       THEN \* clearInterval(interval); resolve(true)
            /\ interval' = "cleared"
            /\ waitPromise' = "resolved"
       ELSE UNCHANGED <<interval, waitPromise>>
  /\ UNCHANGED <<sendOptions, sendPc, account, sendCalls, parseCalls, sendResult,
                 restVars>>

\* The await of the wait's promise resumes: return programId.
ReturnProgramId ==
  /\ sendPc = "awaitExecutable"
  /\ waitPromise = "resolved"
  /\ sendPc' = "done"
  /\ sendResult' = "programId"
  /\ UNCHANGED <<sendOptions, interval, polls, account, waitPromise, sawExecutable,
                 sawNotExecutable, sendCalls, parseCalls, restVars>>

\* sendAndConfirmTransaction resolved with tx: the parsed transaction is
\* asked for.
SendResolves ==
  /\ sendPc = "awaitSend"
  /\ parseCalls' = parseCalls + 1
  /\ sendPc' = "awaitParse"
  /\ UNCHANGED <<sendOptions, interval, polls, account, waitPromise, sawExecutable,
                 sawNotExecutable, sendCalls, sendResult, restVars>>

ParseResolves ==
  /\ sendPc = "awaitParse"
  /\ sendPc' = "done"
  /\ sendResult' = "parsedTransaction"
  /\ UNCHANGED <<sendOptions, interval, polls, account, waitPromise, sawExecutable,
                 sawNotExecutable, sendCalls, parseCalls, restVars>>

\* The chain: the account of programId appears, becomes executable, or the
\* node stops answering for it.
AccountStates == {"unavailable", "notExecutable", "executable"}

AccountChanges(acc) ==
  /\ sendPc # "idle"
  /\ acc # account
  /\ account' = acc
  /\ UNCHANGED <<sendOptions, sendPc, interval, polls, waitPromise, sawExecutable,
                 sawNotExecutable, sendCalls, parseCalls, sendResult, restVars>>

InitDeploy ==
  /\ CallIdle
  /\ batchIn = <<>> /\ batchOut = <<>>
  /\ cmpParams = BaseParams /\ cmpTx = NoPayload /\ cmpOut = "none"
  /\ SelectCoinsIdle /\ CalculateFeeIdle /\ NormalizeIdle
  /\ sendOptions \in [instructions : BOOLEAN, to : BOOLEAN]
  /\ sendPc = "start"
  /\ account \in AccountStates
  /\ SendFresh

NextDeploy ==
  \/ sendTransaction
  \/ SetSignerResolves
  \/ AwaitRejects
  \/ DeployResolves
  \/ IntervalFires
  \/ \E k \in 1..MaxInFlight : PollAnswered(k)
  \/ \E k \in 1..MaxInFlight : PollCallback(k)
  \/ ReturnProgramId
  \/ SendResolves
  \/ ParseResolves
  \/ \E acc \in AccountStates : AccountChanges(acc)

SpecDeploy == InitDeploy /\ [][NextDeploy]_vars

\* The timer keeps firing while the interval is set, every call under way
\* is answered and its callback run, and a resolved await resumes.
FairDeploy ==
  /\ WF_vars(IntervalFires)
  /\ \A k \in 1..MaxInFlight : WF_vars(PollAnswered(k)) /\ WF_vars(PollCallback(k))
  /\ WF_vars(ReturnProgramId)

SpecDeployFair == SpecDeploy /\ FairDeploy

\* ================================================================== claims
\* Positions <<i, j>> (0-based) of a matrix, and history order on them.
Positions(m) ==
  UNION {{<<a, b>> : b \in 0..(Len(m[a + 1]) - 1)} : a \in 0..(Len(m) - 1)}

At(m, p) == m[p[1] + 1][p[2] + 1]

Earlier(p, q) == p[1] < q[1] \/ (p[1] = q[1] /\ p[2] < q[2])

\* The phase tag each finder asks for.
RequestedTag ==
  CASE finder = "init" -> 0
    [] finder = "claim" -> 1
    [] finder = "refund" -> 2
    [] OTHER -> NoInstruction

\* The transaction carries the tag and, for Initiate and Claim, satisfies
\* the finder's predicate.
HasTag(tx, tag) == tx.hasRaw /\ tx._raw.instruction = tag

SatisfiesPredicate(tx) ==
  CASE finder = "init" -> _compareParams(swapParams, tx._raw)
    [] finder = "claim" -> _validateSecret(swapParams, tx._raw)
    [] OTHER -> TRUE

Qualifies(tx) == HasTag(tx, RequestedTag) /\ SatisfiesPredicate(tx)

Returned == initTransaction[1]

ReturnedFound == pc = "done" /\ outcome = "Found"

\* C1: for phaseTag Initiate or Claim, the transaction returned is the one
\* at the first position in history order (batches in batch order, entries
\* in order within a batch) whose tag equals phaseTag and for which the
\* predicate holds: it satisfies both, and no earlier transaction does.
C1_FirstMatchReturned ==
  (ReturnedFound /\ finder \in {"init", "claim"}) =>
    /\ <<i, j>> \in Positions(matrix)
    /\ Returned = At(matrix, <<i, j>>)
    /\ HasTag(Returned, instruction) /\ SatisfiesPredicate(Returned)
    /\ \A q \in Positions(matrix) :
         Earlier(q, <<i, j>>) =>
           ~(HasTag(At(matrix, q), instruction) /\ SatisfiesPredicate(At(matrix, q)))

\* A match in the second batch behind a transaction with the tag that fails
\* the predicate.
C1_Witness ==
  /\ ReturnedFound /\ finder \in {"init", "claim"}
  /\ i = 1
  /\ \E q \in Positions(matrix) :
       /\ Earlier(q, <<i, j>>)
       /\ HasTag(At(matrix, q), instruction)
       /\ ~SatisfiesPredicate(At(matrix, q))

\* The history lookup and every batch fetch resolved.
AllFetchesSucceeded ==
  /\ historyFetch = "resolved"
  /\ \A b \in 1..Len(fetch) : fetch[b].status = "resolved"

\* What the batch fetches returned, by batch.
Responses == [b \in 1..Len(fetch) |-> fetch[b].value]

\* C2: for phaseTag Refund the scan returns the first transaction in history
\* order whose tag is Refund, whatever its other payload fields and whatever
\* swapParams, and no validation predicate is called during a refund scan.
C2_RefundFirstTagNoValidation ==
  finder = "refund" =>
    /\ validationLog = <<>>
    /\ ReturnedFound =>
         /\ <<i, j>> \in Positions(matrix)
         /\ Returned = At(matrix, <<i, j>>)
         /\ HasTag(Returned, instructions.refund)
         /\ \A q \in Positions(matrix) :
              Earlier(q, <<i, j>>) => ~HasTag(At(matrix, q), instructions.refund)
    /\ (pc = "done" /\ AllFetchesSucceeded) =>
         (outcome = "Found" <=>
            \E q \in Positions(Responses) : HasTag(At(Responses, q), instructions.refund))

\* A refund found behind another transaction, with payload fields that do
\* not match swapParams.
C2_Witness ==
  /\ ReturnedFound /\ finder = "refund"
  /\ <<i, j>> # <<0, 0>>
  /\ ~_compareParams(swapParams, Returned._raw)
  /\ Returned._raw.seller # addressToString(swapParams.refundAddress)

\* C3: when every fetch succeeds, the call ends NotFound if and only if no
\* transaction of the history carries the requested tag and (Initiate,
\* Claim) satisfies the predicate, and ends Found otherwise; a match in the
\* last batch is found.
C3_NotFoundIffNoMatch ==
  (pc = "done" /\ AllFetchesSucceeded) =>
    /\ outcome \in {"Found", "NotFound"}
    /\ outcome = "NotFound" <=>
         ~\E q \in Positions(Responses) : Qualifies(At(Responses, q))

\* The only match of a three-batch history lies in its last batch.
C3_Witness ==
  /\ ReturnedFound /\ AllFetchesSucceeded
  /\ Len(fetch) = 3 /\ i = 2
  /\ \A q \in Positions(Responses) : Qualifies(At(Responses, q)) => q[1] = 2

\* The first position of m, in history order, whose transaction qualifies.
FirstQualifying(m) ==
  {p \in Positions(m) :
     /\ Qualifies(At(m, p))
     /\ \A q \in Positions(m) : Earlier(q, p) => ~Qualifies(At(m, q))}

\* C4: the result of a call is a function of the history and of what each
\* batch's fetch returned, not of the order in which the fetches completed:
\* it is the first qualifying transaction of the responses taken in batch
\* order, or absent when there is none.
C4_ResultIndependentOfCompletionOrder ==
  (pc = "done" /\ AllFetchesSucceeded) =>
    IF FirstQualifying(Responses) = {}
      THEN outcome = "NotFound" /\ initTransaction = <<>>
      ELSE \A p \in FirstQualifying(Responses) :
             /\ outcome = "Found"
             /\ <<i, j>> = p
             /\ initTransaction = <<At(Responses, p)>>

\* The fetch of a later batch completed before that of an earlier batch,
\* and the match lies in the earlier one while the later one qualifies too.
C4_Witness ==
  /\ ReturnedFound /\ AllFetchesSucceeded
  /\ Len(settleOrder) >= 2
  /\ settleOrder[1] > settleOrder[2]
  /\ i = settleOrder[2]
  /\ \E q \in Positions(Responses) :
       q[1] = settleOrder[1] /\ Qualifies(At(Responses, q))

\* C5: if the history lookup or any batch fetch fails, the call ends in
\* Error with that collaborator's failure, never in Found or NotFound, also
\* when a batch that resolved holds a match.
C5_FailureEndsInError ==
  /\ historyFetch = "rejected" =>
       /\ pc = "done" /\ outcome = "Error"
       /\ error = Err("getAddressHistory", NoBatch)
       /\ fetch = <<>>
  /\ (\E b \in 1..Len(fetch) : fetch[b].status = "rejected") =>
       /\ outcome \notin {"Found", "NotFound"}
       /\ pc \in {"awaitAll", "done"}
       /\ pc = "done" =>
            /\ outcome = "Error"
            /\ error.what = "getParsedAndConfirmedTransactions"
            /\ error.batch \in 0..(Len(fetch) - 1)
            /\ fetch[error.batch + 1].status = "rejected"

\* A batch fetch failed after another batch had resolved with a match.
C5_Witness ==
  /\ pc = "done" /\ outcome = "Error"
  /\ \E b \in 1..Len(fetch) : fetch[b].status = "rejected"
  /\ \E b \in 1..Len(fetch) :
       /\ fetch[b].status = "resolved"
       /\ \E k \in 1..Len(fetch[b].value) : Qualifies(fetch[b].value[k])

\* The lookup of the initiation transaction returned no transaction.
InitTxAbsent ==
  /\ finder \in {"claim", "refund"}
  /\ initTxFetch.status = "resolved"
  /\ initTxFetch.value = <<>>

\* C6: in findClaimSwapTransaction and findRefundSwapTransaction, when the
\* lookup of the initiation transaction returns no transaction the call
\* fails with PendingTxError, which is not the NotFound result, and no
\* history lookup and no batch fetch has been issued.
C6_PendingBeforeAnyScan ==
  InitTxAbsent =>
    /\ pc = "done"
    /\ outcome = "PendingTxError" /\ outcome # "NotFound"
    /\ error = Err("PendingTxError", NoBatch)
    /\ histCalls = 0 /\ historyFetch = "none"
    /\ fetch = <<>> /\ matrix = <<>> /\ initLookups = 1

C6_Witness == InitTxAbsent /\ finder = "refund" /\ pc = "done"

\* C7: when a claim transaction is accepted and its payload carries a
\* revealed secret, the secret field of the returned transaction is that
\* payload's secret, the one the predicate hashed.
C7_SecretIsPayloadSecret ==
  (ReturnedFound /\ finder = "claim" /\ Returned._raw.secret # UNDEFINED) =>
    Returned.secret = Returned._raw.secret

\* C8: the tag in the payload of a returned transaction is the tag the
\* finder asked for (Initiate 0, Claim 1, Refund 2); a transaction without
\* payload or with another tag is never returned.
C8_ReturnedTagIsRequested ==
  ReturnedFound =>
    /\ Returned.hasRaw
    /\ Returned._raw.instruction = RequestedTag
    /\ RequestedTag \in {0, 1, 2}

\* A transaction is returned after one without payload was passed over.
C8_Witness ==
  /\ ReturnedFound
  /\ \E q \in Positions(matrix) : Earlier(q, <<i, j>>) /\ ~At(matrix, q).hasRaw

\* The chunks joined in order.
RECURSIVE Concat(_)
Concat(chunks) ==
  IF Len(chunks) = 0 THEN <<>> ELSE Head(chunks) \o Concat(Tail(chunks))

Signatures(history) == [k \in 1..Len(history) |-> history[k].signature]

BatchDone == batchOut # <<>>

\* C9: the chunks _batchSignatures returns, joined in order, are the
\* references of the history (none lost, duplicated or moved); every chunk
\* has at most 100 elements and every chunk but the last exactly 100; 250
\* entries give chunks of 100, 100 and 50.
C9_BatchesPartitionHistory ==
  BatchDone =>
    /\ Concat(batchOut) = Signatures(batchIn)
    /\ \A b \in 1..Len(batchOut) : Len(batchOut[b]) <= 100
    /\ \A b \in 1..(Len(batchOut) - 1) : Len(batchOut[b]) = 100
    /\ Len(batchIn) = 250 =>
         [b \in 1..Len(batchOut) |-> Len(batchOut[b])] = <<100, 100, 50>>

C9_Witness ==
  /\ BatchDone
  /\ Len(batchIn) = 250
  /\ Len(batchOut) = 3
  /\ batchOut[3][50] = batchIn[250].signature

\* The five fields agree; an address agrees with a payload string when it
\* is that very string.
FieldsAgree(params, tx) ==
  /\ params.recipientAddress = Str(tx.buyer)
  /\ params.refundAddress = Str(tx.seller)
  /\ params.secretHash = tx.secret_hash
  /\ params.value = tx.value
  /\ params.expiration = tx.expiration

\* The number of the five fields in which two payloads, or two swapParams,
\* differ.
Differing(S) == Cardinality({f \in DOMAIN S : S[f]})

PayloadDiff(a, b) ==
  Differing([buyer |-> a.buyer # b.buyer, seller |-> a.seller # b.seller,
             secret_hash |-> a.secret_hash # b.secret_hash,
             value |-> a.value # b.value,
             expiration |-> a.expiration # b.expiration])

ParamsDiff(a, b) ==
  Differing([recipientAddress |-> a.recipientAddress # b.recipientAddress,
             refundAddress |-> a.refundAddress # b.refundAddress,
             secretHash |-> a.secretHash # b.secretHash,
             value |-> a.value # b.value,
             expiration |-> a.expiration # b.expiration])

SelectCoinsDone == scOut # <<>>

SelectCoinsResult == scOut[1]

InSeq(x, xs) == \E k \in 1..Len(xs) : xs[k] = x

\* C11: whenever selectCoins is called with a non-empty fixedInputs and
\* returns a selection, every UTXO of fixedInputs is among the selected
\* inputs.
C11_FixedInputsAllSelected ==
  (SelectCoinsDone /\ Len(scArgs.fixedInputs) # 0 /\ SelectCoinsResult.hasInputs) =>
    \A k \in 1..Len(scArgs.fixedInputs) :
      InSeq(scArgs.fixedInputs[k], SelectCoinsResult.inputs)

\* C12: a result of selectCoins that carries selected inputs has an input
\* total of at least the sum of the target amounts plus the fee of the
\* result, with and without fixedInputs.
C12_InputsCoverTargetsPlusFee ==
  (SelectCoinsDone /\ SelectCoinsResult.hasInputs) =>
    SumValues(SelectCoinsResult.inputs)
      >= SumValues(scArgs.targets) + SelectCoinsResult.fee

\* The scenario 5000, 3000, 1000 for a target of 6000 at rate 1 without
\* fixed inputs: 5000 and 3000 are selected, with a change output.
C12_Witness ==
  /\ SelectCoinsDone /\ SelectCoinsResult.hasInputs
  /\ [k \in 1..Len(scArgs.utxos) |-> scArgs.utxos[k].value] = <<5000, 3000, 1000>>
  /\ scArgs.targets = <<Target(6000)>>
  /\ scArgs.feePerByte = Rate(1, 1)
  /\ Len(scArgs.fixedInputs) = 0
  /\ SumValues(SelectCoinsResult.inputs) = 8000
  /\ Len(SelectCoinsResult.outputs) = 2

\* The sets of positions of a list of candidates.
Subsets(xs) == SUBSET (1..Len(xs))

RECURSIVE SumAt(_, _)
SumAt(xs, K) ==
  IF K = {} THEN 0
  ELSE LET k == CHOOSE n \in K : TRUE IN xs[k].value + SumAt(xs, K \ {k})

\* Some subset of the candidates covers the targets and the fee of its size.
SomeSubsetCovers ==
  LET candidates == SelectUtxos(scArgs.utxos, scArgs.fixedInputs)
  IN \E K \in Subsets(candidates) :
       SumAt(candidates, K)
         >= SumValues(scArgs.targets)
              + MathCeil(scArgs.feePerByte)
                  * TransactionBytes(Cardinality(K), Len(scArgs.targets))

\* C13: when no subset of the available UTXOs covers targets plus fee,
\* selectCoins does not complete by returning a result value; it reports
\* an insufficient-funds error.
C13_InsufficientFundsIsAnError ==
  (SelectCoinsDone /\ ~SomeSubsetCovers) =>
    SelectCoinsResult.completion # "returned"

\* ------------------------------------------------------------ calculateFee
CalculateFeeDone == feeOut # <<>>

\* C14 as stated: calculateFee(n, m, r) equals (148 n + 34 m + 10) ceil(r)
\* for every positive rational r, non-integer ones included.
C14_FeeUsesCeilOfRate ==
  CalculateFeeDone =>
    RatEq(feeOut[1],
          Rate((148 * feeArgs.numInputs + 34 * feeArgs.numOutputs + 10)
                 * MathCeil(feeArgs.feePerByte), 1))

\* C14 amended: calculateFee(n, m, r) equals (148 n + 34 m + 10) r, the rate
\* taken as it is given; this is (148 n + 34 m + 10) ceil(r) when r is an
\* integer, and less than that when it is not.
C14_FeeIsProductWithRate ==
  CalculateFeeDone =>
    LET n == feeArgs.numInputs
        m == feeArgs.numOutputs
        r == feeArgs.feePerByte
        withCeil == (148 * n + 34 * m + 10) * MathCeil(r)
    IN /\ feeOut[1].num * r.den
            = (148 * n * r.num + 34 * m * r.num + 10 * r.num) * feeOut[1].den
       /\ r.num % r.den = 0 => feeOut[1].num = withCeil * feeOut[1].den
       /\ r.num % r.den # 0 => feeOut[1].num < withCeil * feeOut[1].den

\* The fee of 1 input and 2 outputs at a rate of 3/2 is 339, not 452.
C14_Witness ==
  /\ CalculateFeeDone
  /\ feeArgs = [numInputs |-> 1, numOutputs |-> 2, feePerByte |-> Rate(3, 2)]
  /\ RatEq(feeOut[1], Rate(339, 1))

\* ---------------------------------------------- normalizeTransactionObject
NormalizeDone == normOut # <<>>

NormalizeResult == normOut[1]

\* The sum of the outputs in smallest units, an output of num / den whole
\* units counting num * 10^8 / den.
RECURSIVE SmallestUnits(_)
SmallestUnits(vout) ==
  IF Len(vout) = 0 THEN 0
  ELSE (Head(vout).value.num * 100000000) \div Head(vout).value.den
         + SmallestUnits(Tail(vout))

\* C15: for every provided fee the result carries fee and
\* feePrice = round(fee / vsize), and neither when fee is omitted; for every
\* provided block it carries the block's hash and number and the
\* transaction's confirmation count, and neither hash nor number when block
\* is omitted; the two groups are independent, and hash, total value and raw
\* transaction are the same in every combination.
C15_FeeAndBlockFieldsFollowArguments ==
  NormalizeDone =>
    LET tx == normArgs.tx
        fee == normArgs.fee
        block == normArgs.block
    IN /\ NormalizeResult.hasFee = fee.given
       /\ fee.given =>
            /\ NormalizeResult.fee = fee.value
            /\ 2 * tx.vsize * NormalizeResult.feePrice <= 2 * fee.value + tx.vsize
            /\ 2 * fee.value + tx.vsize < 2 * tx.vsize * (NormalizeResult.feePrice + 1)
       /\ NormalizeResult.hasBlock = block.given
       /\ block.given =>
            /\ NormalizeResult.blockHash = block.value.hash
            /\ NormalizeResult.blockNumber = block.value.number
            /\ NormalizeResult.confirmations = tx.confirmations
       /\ NormalizeResult.hash = tx.txid
       /\ NormalizeResult.value = SmallestUnits(tx.vout)
       /\ NormalizeResult._raw = tx

\* ------------------------------------------------------ the discovery call
\* A fetch has been issued for every batch, and every fetch has resolved.
EveryBatchFetched ==
  /\ Len(fetch) = Len(batch)
  /\ \A b \in 0..(Len(batch) - 1) : InSeq(b, fetchCalls)

EveryFetchResolved == \A b \in 1..Len(fetch) : fetch[b].status = "resolved"

\* The result of a batch has been looked at, or a transaction classified.
ScanStarted ==
  \/ pc = "scan"
  \/ matrix # <<>> \/ i # 0 \/ j # 0
  \/ initTransaction # <<>> \/ validationLog # <<>>
  \/ outcome \in {"Found", "NotFound"}

\* C16: a fetch is issued for every batch before the result of any batch is
\* inspected (or any fetch has settled), and no transaction is classified
\* until every batch fetch has resolved.
C16_AllFetchedBeforeScan ==
  /\ settleOrder # <<>> => EveryBatchFetched
  /\ ScanStarted => (EveryBatchFetched /\ EveryFetchResolved)

\* A transaction of the first batch has been inspected; the fetch of the
\* first batch was the last of three to resolve.
C16_Witness ==
  /\ pc = "scan" /\ j > 0
  /\ Len(batch) = 3
  /\ settleOrder[3] = 0

\* How many times x occurs in xs.
Count(x, xs) == Cardinality({k \in 1..Len(xs) : xs[k] = x})

\* C17: within one call the address-history collaborator is invoked at most
\* once and the batch-fetch collaborator at most once per batch, also after
\* a failure; when the history lookup fails no batch fetch is issued.
C17_NoRetryFailFast ==
  /\ histCalls <= 1
  /\ \A b \in 0..(Len(batch) - 1) : Count(b, fetchCalls) <= 1
  /\ Len(fetchCalls) <= Len(batch)
  /\ historyFetch = "rejected" => (fetchCalls = <<>> /\ fetch = <<>>)

\* The call has ended in Error on the failed fetch of one of three batches.
C17_Witness ==
  /\ pc = "done" /\ outcome = "Error"
  /\ Len(batch) = 3 /\ Len(fetchCalls) = 3
  /\ \E b \in 1..Len(fetch) : fetch[b].status = "rejected"

\* C18: the validation predicate is applied only to transactions whose tag
\* equals phaseTag (one without payload is skipped without a call), at most
\* once per transaction, and never to a transaction behind the accepted one
\* in history order, across batches too.
C18_ValidationOnlyOnTaggedUpToAccepted ==
  /\ \A k \in 1..Len(validationLog) :
       /\ validationLog[k] \in Positions(matrix)
       /\ HasTag(At(matrix, validationLog[k]), RequestedTag)
       /\ \A n \in 1..Len(validationLog) : n # k => validationLog[n] # validationLog[k]
  /\ ReturnedFound =>
       \A k \in 1..Len(validationLog) :
         validationLog[k] = <<i, j>> \/ Earlier(validationLog[k], <<i, j>>)
  /\ (ReturnedFound /\ finder # "refund") =>
       /\ validationLog # <<>>
       /\ validationLog[Len(validationLog)] = <<i, j>>
       /\ \A q \in Positions(matrix) :
            (Earlier(q, <<i, j>>) /\ HasTag(At(matrix, q), RequestedTag))
              => InSeq(q, validationLog)

\* A match was accepted while a transaction that carries the tag and
\* satisfies the predicate waits in a later batch.
C18_Witness ==
  /\ ReturnedFound /\ finder = "init"
  /\ validationLog = << <<i, j>> >>
  /\ \E q \in Positions(matrix) : q[1] > i /\ Qualifies(At(matrix, q))

\* max(1, ceil(n / 100))
ExpectedBatches(n) == IF n = 0 THEN 1 ELSE (n + 99) \div 100

\* C19: for a history of n references the call issues exactly
\* max(1, ceil(n / 100)) batch fetches; for an empty history that is one
\* fetch of an empty reference list, and the call then returns absent
\* (NotFound) when that fetch succeeds.
C19_FetchCountAndEmptyHistory ==
  historyFetch = "resolved" =>
    /\ Len(fetchCalls) = ExpectedBatches(Len(addressHistory))
    /\ Len(fetch) = ExpectedBatches(Len(addressHistory))
    /\ Len(addressHistory) = 0 =>
         /\ batch = << <<>> >>
         /\ fetchCalls = <<0>>
         /\ (pc = "done" /\ fetch[1].status = "resolved") =>
              (outcome = "NotFound" /\ initTransaction = <<>>)

\* An empty history ended NotFound after its one fetch resolved.
C19_Witness ==
  /\ pc = "done" /\ outcome = "NotFound"
  /\ historyFetch = "resolved" /\ addressHistory = <<>>
  /\ fetch[1].status = "resolved"

\* ----------------------------------------------- sendTransaction: deploy
DeployPath == IsDeploy(sendOptions)

\* C20, the states: on the deploy path the program id is returned only
\* after a poll has observed executable = true, the wait resolves only
\* after such a poll, and no transaction is sent or confirmed.
C20_DeploySafety ==
  /\ sendResult = "programId" =>
       (DeployPath /\ sawExecutable /\ waitPromise = "resolved")
  /\ waitPromise = "resolved" => (sawExecutable /\ interval = "cleared")
  /\ DeployPath => (sendCalls = 0 /\ parseCalls = 0 /\ sendResult # "parsedTransaction")

\* C20: on the deploy path of sendTransaction the program id is returned
\* only after some poll has observed executable = true, and no transaction
\* is sent or confirmed on that path; if from some point on the account is
\* reported executable on every poll, a pending wait eventually resolves
\* with the interval cancelled; if the account is never reported
\* executable, the wait never resolves.
C20_DeployWaitsForExecutable ==
  /\ []C20_DeploySafety
  /\ (<>[](account = "executable")) =>
       []((waitPromise = "pending") => <>(waitPromise = "resolved" /\ interval = "cleared"))
  /\ ([](account # "executable")) => [](waitPromise # "resolved")

\* The program id was returned after polls that saw the account not yet
\* executable, and the interval is cancelled.
C20_Witness ==
  /\ sendResult = "programId"
  /\ sawNotExecutable /\ sawExecutable
  /\ interval = "cleared"
  /\ sendCalls = 0

====
